---- MODULE Spec2Model ----
(***************************************************************************)
(* skillrepos/colab-rag: the two notebooks as state machines.              *)
(*                                                                         *)
(*   Spec      the RAG notebook (src/unnamed/part_000): download, model    *)
(*             client, load and split, embed and store, interactive query  *)
(*             loop.  One action per cell, and one per statement of the    *)
(*             loop body that talks to the outside.                        *)
(*   ToolSpec  the two search tools of src/agents_example.ipynb applied    *)
(*             to query strings.                                           *)
(*   AgentSpec the agent notebook run cell by cell through crew.kickoff(). *)
(*                                                                         *)
(* Text is a sequence of tokens.  A token is one character ("e", " ") or a *)
(* literal of the source that is never looked into (a template segment,    *)
(* a message).                                                             *)
(***************************************************************************)
EXTENDS Integers, Sequences, FiniteSets, TLC

VARIABLES
    \* ---- RAG notebook
    pc,            \* position in the notebook
    fetches,       \* every HTTP GET of DOC_PATH made so far: <<[by, status, content]>>
    response,      \* requests.get's result in cell 5
    file,          \* the bytes of DOC_FILENAME on disk
    exitCode,      \* the argument of sys.exit
    exc,           \* the exception that ended the run
    llm,           \* the Ollama client of cell 6
    pages,         \* loader.load()
    chunks,        \* text_splitter.split_documents(pages)
    db_chroma,     \* the index: <<[doc, embedding]>>
    query, docs_chroma, context_text, prompt, response_text,
    stdout,        \* the argument of the last print
    nInput, nAccepted, nSearch, nInvoke, nPrint,
    \* ---- agent notebook
    apc,           \* position in the notebook
    toolsDefined,  \* the @tool objects cell 6 has defined
    agentTools,    \* agent_amazon_shopper.tools
    taskAgent,     \* task_shop.agent
    serviceCalls,  \* every DuckDuckGoSearchRun().run(arg): <<[arg, text]>>
    toolCalls,     \* every tool invocation: <<[tool, q, result]>>
    res            \* crew.kickoff()

ragVars == <<pc, fetches, response, file, exitCode, exc, llm, pages, chunks,
             db_chroma, query, docs_chroma, context_text, prompt,
             response_text, stdout, nInput, nAccepted, nSearch, nInvoke,
             nPrint>>
agentVars == <<apc, toolsDefined, agentTools, taskAgent, serviceCalls,
               toolCalls, res>>
\* the positions and the counters first: every step changes one of them
vars == <<pc, apc, nInput, nAccepted, nSearch, nInvoke, nPrint, fetches,
          toolCalls, serviceCalls, response, file, exitCode, exc, llm, pages,
          chunks, db_chroma, query, docs_chroma, context_text, prompt,
          response_text, stdout, toolsDefined, agentTools, taskAgent, res>>

None == "None"

----------------------------------------------------------------------------
(* Bounds *)

\* input lines the operator types in one run
MaxInputs == 3
\* chunks the splitter makes of the larger sample document
NumChunks == 6
\* tool invocations in one run of the agent notebook
MaxToolCalls == 3

----------------------------------------------------------------------------
(* Text *)

Upper(c) ==
    CASE c = "e" -> "E" [] c = "x" -> "X" [] c = "i" -> "I" [] c = "t" -> "T"
      [] c = "q" -> "Q" [] c = "s" -> "S" [] OTHER -> c

Lower(c) ==
    CASE c = "E" -> "e" [] c = "X" -> "x" [] c = "I" -> "i" [] c = "T" -> "t"
      [] c = "Q" -> "q" [] c = "S" -> "s" [] OTHER -> c

\* str.lower()
StrLower(s) == [i \in 1..Len(s) |-> Lower(s[i])]

IsSpace(c) == c \in {" ", "\t", "\n"}

RECURSIVE LStrip(_)
LStrip(s) == IF s # <<>> /\ IsSpace(Head(s)) THEN LStrip(Tail(s)) ELSE s

RECURSIVE RStrip(_)
RStrip(s) ==
    IF s # <<>> /\ IsSpace(s[Len(s)]) THEN RStrip(SubSeq(s, 1, Len(s) - 1))
    ELSE s

\* str.strip()
Strip(s) == RStrip(LStrip(s))

\* sep.join(parts)
RECURSIVE Join(_, _)
Join(sep, parts) ==
    IF parts = <<>> THEN <<>>
    ELSE IF Len(parts) = 1 THEN parts[1]
    ELSE parts[1] \o sep \o Join(sep, Tail(parts))

EXIT == <<"e", "x", "i", "t">>

\* "exit" in every letter case
ExitVariants ==
    {[i \in 1..Len(EXIT) |-> IF i \in U THEN Upper(EXIT[i]) ELSE EXIT[i]] :
        U \in SUBSET (1..Len(EXIT))}

\* the lines the operator may type at the prompt: the sentinel in every
\* letter case; the sentinel, nothing and a one-letter question with
\* whitespace before and after; two questions that contain the sentinel
Lines ==
    ExitVariants
    \cup {pre \o w \o post :
            pre \in {<<>>, <<" ">>}, post \in {<<>>, <<" ">>, <<"\t">>},
            w \in {EXIT, <<"E", "X", "I", "T">>, <<>>, <<"q">>}}
    \cup {<<"e", "x", "i", "t", "s">>, <<"e", "x", " ", "i", "t">>}

----------------------------------------------------------------------------
(* RAG notebook: configuration and outside world *)

DOC_PATH == "https://raw.githubusercontent.com/skillrepos/genai-dd/main/samples/data.pdf"
DOC_FILENAME == "data.pdf"

HTTP_OK == 200

\* k of similarity_search_with_score
TopK == 5

\* what the server may answer to a GET of DOC_PATH
Statuses == {200, 404, 500}
\* the documents it may serve: the answer to one GET need not be the answer
\* to the next
Payloads == {"A", "B"}

\* what the model server may generate
Responses == {<<"Paris.">>, <<" ", "Paris.", "\n">>}

Min(a, b) == IF a < b THEN a ELSE b

ChunkCount(p) == IF p = "A" THEN NumChunks ELSE NumChunks - 4

DigitChar(i) == ToString(i)

\* the text of the i-th chunk of document p
PageContent(p, i) == <<p>> \o [j \in 1..(i % 3) |-> DigitChar(i)]

\* PyPDFLoader(path).load(): the pages of the document read from `path`;
\* origin is the position in `fetches` of the GET that produced the bytes
Load(content, origin) == <<[content |-> content, origin |-> origin]>>

\* RecursiveCharacterTextSplitter.split_documents(pages)
Split(pgs) ==
    [i \in 1..ChunkCount(pgs[1].content) |->
        [page_content |-> PageContent(pgs[1].content, i),
         origin |-> pgs[1].origin]]

\* FastEmbedEmbeddings
Embed(text) == Len(text)

\* Chroma.from_documents(chunks, embeddings, ...)
FromDocuments(cs) ==
    [i \in 1..Len(cs) |->
        [doc |-> cs[i], embedding |-> Embed(cs[i].page_content)]]

\* db.similarity_search_with_score(query, k): the k best entries, best first,
\* as (doc, score) pairs.  Which entry is the best and on which side its
\* neighbours lie is the index's choice (best, dir).
SimilaritySearch(db, best, dir, k) ==
    [j \in 1..Min(k, Len(db)) |->
        [doc |-> db[((best - 1 + dir * (j - 1) + Len(db)) % Len(db)) + 1].doc,
         score |-> j]]

----------------------------------------------------------------------------
(* RAG notebook: cell 9 *)

PROMPT_TEMPLATE ==
    <<"\nAnswer the question: ", "{question}",
      " using only data you can find in ", "{context}",
      ". Do not use other data sources.\nDon't justify your answers.\n">>

\* ChatPromptTemplate.from_template(t).format(context=c, question=q)
RECURSIVE Substitute(_, _, _)
Substitute(t, c, q) ==
    IF t = <<>> THEN <<>>
    ELSE (CASE Head(t) = "{question}" -> q
            [] Head(t) = "{context}" -> c
            [] OTHER -> <<Head(t)>>) \o Substitute(Tail(t), c, q)

Format(t, c, q) == <<"Human: ">> \o Substitute(t, c, q)

\* the sentinel compared without lower()
IsSentinel_CaseSensitive(q) == q = EXIT

IsSentinel(q) == StrLower(q) = EXIT

\* `if not query:` without strip()
IsBlank_NoStrip(q) == q = <<>>

IsBlank(q) == Strip(q) = <<>>

\* the chunks joined by a single newline
ContextText_SingleNewline(docs) ==
    Join(<<"\n">>, [j \in 1..Len(docs) |-> docs[j].doc.page_content])

\* "\n\n".join([doc.page_content for doc, _score in docs_chroma])
ContextText(docs) ==
    Join(<<"\n", "\n">>, [j \in 1..Len(docs) |-> docs[j].doc.page_content])

\* print(response_text.strip())
Printed_Stripped(r) == Strip(r)

\* print(response_text)
Printed(r) == r

\* the failure is printed and the notebook goes on
DownloadFailed_NoExit == "init_llm"

\* where control goes when the status check of cell 5 fails: sys.exit(1)
DownloadFailed == "exited"

\* continue instead of break
OnSentinel_Continue == "input"

\* where control goes on the sentinel: break
OnSentinel == "done"

\* the exception is caught and the loop prompts again
OnRaise_Caught == "input"

\* where control goes when a call of the loop body raises: nothing catches it
OnRaise == "crashed"

----------------------------------------------------------------------------
(* RAG notebook: the run *)

RagFresh ==
    /\ fetches = <<>>
    /\ response = None
    /\ file = None
    /\ exitCode = None
    /\ exc = None
    /\ llm = None
    /\ pages = None
    /\ chunks = None
    /\ db_chroma = <<>>
    /\ query = None
    /\ docs_chroma = None
    /\ context_text = None
    /\ prompt = None
    /\ response_text = None
    /\ stdout = <<>>
    /\ nInput = 0
    /\ nAccepted = 0
    /\ nSearch = 0
    /\ nInvoke = 0
    /\ nPrint = 0

RagInit == pc = "download" /\ RagFresh

\* the RAG notebook is not run
RagIdle == pc = "idle" /\ RagFresh

AgentFresh ==
    /\ toolsDefined = {}
    /\ agentTools = {}
    /\ taskAgent = None
    /\ serviceCalls = <<>>
    /\ toolCalls = <<>>
    /\ res = None

\* the agent notebook is not run
AgentIdle == apc = "idle" /\ AgentFresh

Init == RagInit /\ AgentIdle

\* cell 5
Download ==
    /\ pc = "download"
    /\ \E status \in Statuses, content \in Payloads :
        /\ fetches' = Append(fetches, [by |-> "requests.get", url |-> DOC_PATH,
                                       status |-> status, content |-> content])
        /\ response' = [status_code |-> status, content |-> content]
        /\ IF status = HTTP_OK
           THEN /\ file' = [name |-> DOC_FILENAME, bytes |-> content, origin |-> Len(fetches')]
                /\ stdout' = <<"PDF downloaded successfully.">>
                /\ pc' = "init_llm"
                /\ UNCHANGED exitCode
           ELSE /\ stdout' = <<"Failed to download PDF. Status code:", ToString(status)>>
                /\ exitCode' = 1
                /\ pc' = DownloadFailed
                /\ UNCHANGED file
    /\ UNCHANGED <<exc, llm, pages, chunks, db_chroma, query, docs_chroma,
                   context_text, prompt, response_text, nInput, nAccepted,
                   nSearch, nInvoke, nPrint, agentVars>>

\* cell 6
InitLlm ==
    /\ pc = "init_llm"
    /\ llm' = [model |-> "llava:13b-v1.6", temperature |-> "0.7"]
    /\ pc' = "load"
    /\ UNCHANGED <<fetches, response, file, exitCode, exc, pages, chunks,
                   db_chroma, query, docs_chroma, context_text, prompt,
                   response_text, stdout, nInput, nAccepted, nSearch, nInvoke,
                   nPrint, agentVars>>

\* cell 7: the loader is given DOC_PATH, the URL, and gets the document from
\* there itself; a status other than 200 makes it raise
LoadAndSplit ==
    /\ pc = "load"
    /\ \E status \in Statuses, content \in Payloads :
        /\ fetches' = Append(fetches, [by |-> "PyPDFLoader", url |-> DOC_PATH,
                                       status |-> status, content |-> content])
        /\ IF status = HTTP_OK
           THEN /\ pages' = Load(content, Len(fetches'))
                /\ chunks' = Split(pages')
                /\ stdout' = <<"Document split into ", ToString(Len(chunks')), " chunks.">>
                /\ pc' = "embed"
                /\ UNCHANGED exc
           ELSE /\ exc' = "PyPDFLoader"
                /\ pc' = "crashed"
                /\ UNCHANGED <<pages, chunks, stdout>>
    /\ UNCHANGED <<response, file, exitCode, llm, db_chroma, query,
                   docs_chroma, context_text, prompt, response_text, nInput,
                   nAccepted, nSearch, nInvoke, nPrint, agentVars>>

\* cell 8
EmbedAndStore ==
    /\ pc = "embed"
    /\ db_chroma' = FromDocuments(chunks)
    /\ stdout' = <<"Vector database created.">>
    /\ pc' = "input"
    /\ UNCHANGED <<fetches, response, file, exitCode, exc, llm, pages, chunks,
                   query, docs_chroma, context_text, prompt, response_text,
                   nInput, nAccepted, nSearch, nInvoke, nPrint, agentVars>>

\* cell 9, lines 189-194: input, the sentinel check, the blank check
ReadInput ==
    /\ pc = "input"
    /\ nInput < MaxInputs
    /\ \E line \in Lines :
        /\ query' = line
        /\ nInput' = nInput + 1
        /\ IF IsSentinel(line)
           THEN /\ stdout' = <<"Exiting...">>
                /\ pc' = OnSentinel
                /\ UNCHANGED nAccepted
           ELSE IF IsBlank(line)
           THEN /\ pc' = "input"
                /\ UNCHANGED <<stdout, nAccepted>>
           ELSE /\ pc' = "retrieve"
                /\ nAccepted' = nAccepted + 1
                /\ UNCHANGED stdout
    /\ UNCHANGED <<fetches, response, file, exitCode, exc, llm, pages, chunks,
                   db_chroma, docs_chroma, context_text, prompt,
                   response_text, nSearch, nInvoke, nPrint, agentVars>>

\* cell 9, lines 197-198
Retrieve ==
    /\ pc = "retrieve"
    /\ nSearch' = nSearch + 1
    /\ \/ \E best \in 1..Len(db_chroma), dir \in {1, -1} :
            /\ docs_chroma' = SimilaritySearch(db_chroma, best, dir, TopK)
            /\ context_text' = ContextText(docs_chroma')
            /\ pc' = "format"
            /\ UNCHANGED exc
       \/ /\ exc' = "similarity_search_with_score"
          /\ pc' = OnRaise
          /\ UNCHANGED <<docs_chroma, context_text>>
    /\ UNCHANGED <<fetches, response, file, exitCode, llm, pages, chunks,
                   db_chroma, query, prompt, response_text, stdout, nInput,
                   nAccepted, nInvoke, nPrint, agentVars>>

\* cell 9, lines 201-202
FormatPrompt ==
    /\ pc = "format"
    /\ prompt' = Format(PROMPT_TEMPLATE, context_text, query)
    /\ pc' = "generate"
    /\ UNCHANGED <<fetches, response, file, exitCode, exc, llm, pages, chunks,
                   db_chroma, query, docs_chroma, context_text, response_text,
                   stdout, nInput, nAccepted, nSearch, nInvoke, nPrint,
                   agentVars>>

\* cell 9, line 205
Generate ==
    /\ pc = "generate"
    /\ nInvoke' = nInvoke + 1
    /\ \/ \E text \in Responses :
            /\ response_text' = text
            /\ pc' = "print"
            /\ UNCHANGED exc
       \/ /\ exc' = "llm.invoke"
          /\ pc' = OnRaise
          /\ UNCHANGED response_text
    /\ UNCHANGED <<fetches, response, file, exitCode, llm, pages, chunks,
                   db_chroma, query, docs_chroma, context_text, prompt,
                   stdout, nInput, nAccepted, nSearch, nPrint, agentVars>>

\* cell 9, line 206
PrintResponse ==
    /\ pc = "print"
    /\ stdout' = Printed(response_text)
    /\ nPrint' = nPrint + 1
    /\ pc' = "input"
    /\ UNCHANGED <<fetches, response, file, exitCode, exc, llm, pages, chunks,
                   db_chroma, query, docs_chroma, context_text, prompt,
                   response_text, nInput, nAccepted, nSearch, nInvoke,
                   agentVars>>

Next ==
    \/ Download
    \/ InitLlm
    \/ LoadAndSplit
    \/ EmbedAndStore
    \/ ReadInput
    \/ Retrieve
    \/ FormatPrompt
    \/ Generate
    \/ PrintResponse

Spec == Init /\ [][Next]_vars

----------------------------------------------------------------------------
(* Agent notebook *)

SEARCH_AMAZON == "Search Amazon"
DUCKDUCKGO == "DuckDuckGoSearch"

\* the query strings a tool may be given
Queries == {<<"l", "a", "p">>, <<" ", "l", "a", "p", " ">>, <<>>}

\* what the search service may answer
ServiceTexts == {<<"r", "1">>, <<" ", "r", "2", "\n">>}

\* what the agent may give as its final answer
Answers == {<<"info on laptop">>, <<"no info">>}

\* search_amazon: the argument of DuckDuckGoSearchRun().run
SearchAmazonArg(q) == <<"site:https://amazon.com", " ">> \o q

\* the query is stripped before it is sent
SearchArg_Stripped(search_query) == Strip(search_query)

\* search: the argument of DuckDuckGoSearchRun().run
SearchArg(search_query) == search_query

\* what either tool returns, given the service's text
ToolReturn(text) == text

\* the tools= argument of crewai.Agent
AgentToolList == {DUCKDUCKGO}

\* one invocation of a tool: one run of the search service
RunTool(tool, q, text) ==
    /\ serviceCalls' =
          Append(serviceCalls,
                 [arg |-> IF tool = SEARCH_AMAZON THEN SearchAmazonArg(q)
                          ELSE SearchArg(q),
                  text |-> text])
    /\ toolCalls' =
          Append(toolCalls, [tool |-> tool, q |-> q, result |-> ToolReturn(text)])

AgentInit == RagIdle /\ apc = "configure_llm" /\ AgentFresh

\* cell 5
ConfigureLlm ==
    /\ apc = "configure_llm"
    /\ apc' = "define_tools"
    /\ UNCHANGED <<toolsDefined, agentTools, taskAgent, serviceCalls,
                   toolCalls, res, ragVars>>

\* cell 6
DefineTools ==
    /\ apc = "define_tools"
    /\ toolsDefined' = {SEARCH_AMAZON, DUCKDUCKGO}
    /\ apc' = "define_callback"
    /\ UNCHANGED <<agentTools, taskAgent, serviceCalls, toolCalls, res,
                   ragVars>>

\* cell 7: the callback is defined and given to nothing
DefineCallback ==
    /\ apc = "define_callback"
    /\ apc' = "configure_agent"
    /\ UNCHANGED <<toolsDefined, agentTools, taskAgent, serviceCalls,
                   toolCalls, res, ragVars>>

\* cell 8
ConfigureAgent ==
    /\ apc = "configure_agent"
    /\ agentTools' = AgentToolList
    /\ apc' = "create_task"
    /\ UNCHANGED <<toolsDefined, taskAgent, serviceCalls, toolCalls, res,
                   ragVars>>

\* cell 9, lines 180-185: the task, the crew, kickoff begins
Kickoff ==
    /\ apc = "create_task"
    /\ taskAgent' = "agent_amazon_shopper"
    /\ apc' = "running"
    /\ UNCHANGED <<toolsDefined, agentTools, serviceCalls, toolCalls, res,
                   ragVars>>

\* inside kickoff: the model has the agent use one of the agent's tools
AgentUsesTool ==
    /\ apc = "running"
    /\ Len(toolCalls) < MaxToolCalls
    /\ \E tool \in agentTools, q \in Queries, text \in ServiceTexts :
          RunTool(tool, q, text)
    /\ UNCHANGED <<apc, toolsDefined, agentTools, taskAgent, res, ragVars>>

\* inside kickoff: the model has the agent give its final answer
AgentFinishes ==
    /\ apc = "running"
    /\ \E answer \in Answers : res' = answer
    /\ apc' = "print"
    /\ UNCHANGED <<toolsDefined, agentTools, taskAgent, serviceCalls,
                   toolCalls, ragVars>>

\* cell 9, line 186
PrintResult ==
    /\ apc = "print"
    /\ stdout' = res
    /\ apc' = "done"
    /\ UNCHANGED <<toolsDefined, agentTools, taskAgent, serviceCalls,
                   toolCalls, res, pc, fetches, response, file, exitCode, exc,
                   llm, pages, chunks, db_chroma, query, docs_chroma,
                   context_text, prompt, response_text, nInput, nAccepted,
                   nSearch, nInvoke, nPrint>>

AgentNext ==
    \/ ConfigureLlm
    \/ DefineTools
    \/ DefineCallback
    \/ ConfigureAgent
    \/ Kickoff
    \/ AgentUsesTool
    \/ AgentFinishes
    \/ PrintResult

AgentSpec == AgentInit /\ [][AgentNext]_vars

\* a defined tool applied to a query string
InvokeSearchAmazon ==
    /\ SEARCH_AMAZON \in toolsDefined
    /\ Len(toolCalls) < MaxToolCalls
    /\ \E q \in Queries, text \in ServiceTexts : RunTool(SEARCH_AMAZON, q, text)
    /\ UNCHANGED <<apc, toolsDefined, agentTools, taskAgent, res, ragVars>>

InvokeSearch ==
    /\ DUCKDUCKGO \in toolsDefined
    /\ Len(toolCalls) < MaxToolCalls
    /\ \E q \in Queries, text \in ServiceTexts : RunTool(DUCKDUCKGO, q, text)
    /\ UNCHANGED <<apc, toolsDefined, agentTools, taskAgent, res, ragVars>>

ToolNext ==
    \/ ConfigureLlm
    \/ DefineTools
    \/ InvokeSearchAmazon
    \/ InvokeSearch

ToolSpec == AgentInit /\ [][ToolNext]_vars

----------------------------------------------------------------------------
(* Properties of the query loop *)

InLoopBody == pc \in {"retrieve", "format", "generate", "print"}

\* a line of whitespace only, the empty line included
IsBlankLine(l) == \A i \in 1..Len(l) : IsSpace(l[i])

\* a step that reads a line at the prompt
ReadsLine == nInput' = nInput + 1

\* texts joined by a blank line, built from the last one back
RECURSIVE BlankLineJoined(_, _)
BlankLineJoined(docs, n) ==
    IF n = 0 THEN <<>>
    ELSE IF n = 1 THEN docs[1].doc.page_content
    ELSE BlankLineJoined(docs, n - 1) \o <<"\n", "\n">> \o docs[n].doc.page_content

\* C1 as stated: whenever the line last read, with its leading and trailing
\* whitespace trimmed, equals "exit" ignoring letter case, the loop has
\* terminated on that line (and so has issued no similarity query and no
\* generation call for it).
C1_TrimmedSentinelTerminates ==
    (nInput > 0 /\ StrLower(Strip(query)) = EXIT) => pc = "done"

\* C1 as amended: whenever the line last read, with no whitespace trimmed,
\* equals "exit" ignoring letter case, the loop has terminated normally on
\* that line: "Exiting..." was printed, no exit code was set, nothing was
\* raised, and no similarity query or generation call was issued beyond
\* those of the queries accepted before it.
C1_UntrimmedSentinelTerminates ==
    (nInput > 0 /\ query \in ExitVariants) =>
        /\ pc = "done"
        /\ stdout = <<"Exiting...">>
        /\ exitCode = None
        /\ exc = None
        /\ nSearch = nAccepted
        /\ nInvoke = nAccepted

C1_Witness == pc = "done" /\ query = <<"E", "x", "I", "t">>

\* C2: a step that reads a line equal to "exit" in any letter case ends the
\* loop at once, whatever queries came before: no similarity query and no
\* generation call is issued by it, and once the loop has ended no step
\* reads a prompt or issues a call again.
C2_SentinelEndsLoop ==
    /\ [][/\ (ReadsLine /\ query' \in ExitVariants) =>
                /\ pc' = "done"
                /\ nSearch' = nSearch
                /\ nInvoke' = nInvoke
          /\ pc = "done" =>
                /\ pc' = "done"
                /\ nInput' = nInput
                /\ nSearch' = nSearch
                /\ nInvoke' = nInvoke]_vars
    /\ [](pc = "done" => ~ENABLED ReadInput)

C2_Witness ==
    /\ pc = "done"
    /\ nInput = 3
    /\ nPrint = 2
    /\ query = <<"E", "X", "I", "T">>

\* C3: a step that reads an empty or all-whitespace line issues no similarity
\* query and no generation call, prints nothing, raises nothing, does not end
\* the loop, and leaves the loop at the prompt, where the only step there is
\* reads another line.
C3_BlankLineReprompts ==
    [][/\ (ReadsLine /\ IsBlankLine(query')) =>
             /\ pc' = "input"
             /\ nSearch' = nSearch
             /\ nInvoke' = nInvoke
             /\ nPrint' = nPrint
             /\ stdout' = stdout
             /\ exc' = exc
             /\ exitCode' = exitCode
       /\ pc = "input" => ReadsLine]_vars

C3_Witness ==
    /\ pc = "input"
    /\ nInput = 2
    /\ nPrint = 1
    /\ query = <<" ", "\t">>

\* C4: once an accepted query has been retrieved for, the context is the page
\* text of the chunks the one similarity query returned, as many as the top 5
\* of the index, joined by a blank line in the order returned; and once the
\* prompt is formatted it is the template with the raw input as question and
\* that text as context.
C4_ContextIsTopKJoined ==
    /\ pc \in {"format", "generate", "print"} =>
          /\ Len(docs_chroma) = Min(5, Len(db_chroma))
          /\ context_text = BlankLineJoined(docs_chroma, Len(docs_chroma))
          /\ nSearch = nAccepted
    /\ pc \in {"generate", "print"} =>
          prompt = <<"Human: ", "\nAnswer the question: ">> \o query
                   \o <<" using only data you can find in ">>
                   \o BlankLineJoined(docs_chroma, Len(docs_chroma))
                   \o <<". Do not use other data sources.\nDon't justify your answers.\n">>

C4_Witness ==
    /\ pc = "generate"
    /\ Len(db_chroma) > 5
    /\ Len(docs_chroma) = 5
    /\ docs_chroma[1].doc = db_chroma[3].doc
    /\ docs_chroma[2].doc = db_chroma[2].doc

\* C5: when the GET of cell 5 returned a status other than 200, the run has
\* stopped at the download step with exit code 1: no file is written, no
\* page is loaded or split, the index is empty, no second GET was made, the
\* query loop was never entered and no step is possible.
C5_FailedDownloadStops ==
    (pc # "download" /\ response.status_code # 200) =>
        /\ pc = "exited"
        /\ exitCode = 1
        /\ file = None
        /\ pages = None
        /\ chunks = None
        /\ db_chroma = <<>>
        /\ Len(fetches) = 1
        /\ nInput = 0
        /\ ~ENABLED Next

C5_Witness == pc = "exited" /\ response.status_code = 404

\* C6: for an accepted query the steps follow one another in the order
\* similarity query, prompt formatting, generation call, print, prompt: each
\* step that does not raise goes to the next one and counts one call of its
\* own kind and none of another, the print shows the generated text as it
\* was returned, and back at the prompt every accepted query has had exactly
\* one similarity query, one generation call and one print.
C6_StepOrder ==
    /\ [][/\ (pc = "retrieve" /\ exc' = None) =>
                /\ pc' = "format"
                /\ nSearch' = nSearch + 1
                /\ nInvoke' = nInvoke
                /\ nPrint' = nPrint
          /\ pc = "format" =>
                /\ pc' = "generate"
                /\ nSearch' = nSearch
                /\ nInvoke' = nInvoke
                /\ nPrint' = nPrint
          /\ (pc = "generate" /\ exc' = None) =>
                /\ pc' = "print"
                /\ nSearch' = nSearch
                /\ nInvoke' = nInvoke + 1
                /\ nPrint' = nPrint
          /\ pc = "print" =>
                /\ pc' = "input"
                /\ stdout' = response_text
                /\ nSearch' = nSearch
                /\ nInvoke' = nInvoke
                /\ nPrint' = nPrint + 1]_vars
    /\ [](pc = "input" =>
            /\ nSearch = nAccepted
            /\ nInvoke = nAccepted
            /\ nPrint = nAccepted)

C6_Witness ==
    /\ pc = "input"
    /\ nAccepted = 2
    /\ nPrint = 2
    /\ stdout = <<" ", "Paris.", "\n">>

\* C7: a step of the loop body in which the similarity query or the
\* generation call raises is the one call of that step and ends the run
\* there: nothing is printed, no line is read, the index is as it was, and
\* from then on no step is possible.
C7_FailureHalts ==
    /\ [][(InLoopBody /\ exc = None /\ exc' # None) =>
             /\ pc' = "crashed"
             /\ nSearch' + nInvoke' = nSearch + nInvoke + 1
             /\ nPrint' = nPrint
             /\ stdout' = stdout
             /\ nInput' = nInput
             /\ db_chroma' = db_chroma]_vars
    /\ [](exc # None => pc = "crashed" /\ ~ENABLED Next)

C7_Witness ==
    /\ pc = "crashed"
    /\ exc = "llm.invoke"
    /\ nPrint = 1
    /\ nInvoke = 2

----------------------------------------------------------------------------
(* Properties of the agent notebook *)

\* C8 as stated: every invocation of either tool made exactly one call of
\* the search service, with the invocation's query string unchanged as the
\* argument, and returned the service's text unchanged.
C8_ToolsForwardQueryUnchanged ==
    /\ Len(serviceCalls) = Len(toolCalls)
    /\ \A i \in 1..Len(toolCalls) :
          /\ serviceCalls[i].arg = toolCalls[i].q
          /\ toolCalls[i].result = serviceCalls[i].text

\* C8 as amended: every invocation of either tool made exactly one call of
\* the search service and returned the service's text unchanged; the
\* argument of the call is the query string unchanged for "DuckDuckGoSearch"
\* and "site:https://amazon.com " followed by the query string for
\* "Search Amazon".
C8_ToolsForwardQuery ==
    /\ Len(serviceCalls) = Len(toolCalls)
    /\ \A i \in 1..Len(toolCalls) :
          /\ toolCalls[i].tool = "DuckDuckGoSearch" =>
                serviceCalls[i].arg = toolCalls[i].q
          /\ toolCalls[i].tool = "Search Amazon" =>
                serviceCalls[i].arg =
                    <<"site:https://amazon.com", " ">> \o toolCalls[i].q
          /\ toolCalls[i].result = serviceCalls[i].text

C8_Witness ==
    /\ Len(toolCalls) = 2
    /\ toolCalls[1].tool = "Search Amazon"
    /\ toolCalls[1].q = <<"l", "a", "p">>
    /\ toolCalls[2].tool = "DuckDuckGoSearch"
    /\ toolCalls[2].q = <<" ", "l", "a", "p", " ">>
    /\ toolCalls[2].result = <<" ", "r", "2", "\n">>

\* C9: once the agent is configured, every tool the notebook has defined is
\* one of the agent's tools.
C9_DefinedToolsRegistered ==
    apc \in {"create_task", "running", "print", "done"} =>
        toolsDefined \subseteq agentTools

====
